---- MODULE Spec2Model ----
(***************************************************************************)
(* The tick-based simulation of the side-scrolling bird game: the State    *)
(* record, the pure transition function tick, the flap reducer and the     *)
(* scan that folds both over the running state.                            *)
(*                                                                         *)
(* Numbers.  The program computes in floating point.  Every length and     *)
(* velocity is held here as an integer number of TENTHS of a pixel         *)
(* (GRAVITY 1.6 px is 16), which is exact for every value the model        *)
(* draws: gravity, flap, drift and scroll are multiples of 0.1 px, the     *)
(* bounce magnitudes are drawn from tenths in [4, 10), and appear times    *)
(* are multiples of 5 ms, for which (SCROLL / TICK_RATE_MS) * appearTime   *)
(* is a whole number of tenths.  Times are integer milliseconds.           *)
(***************************************************************************)
EXTENDS Integers, Sequences, FiniteSets

(***************************************************************************)
(* Program constants (tenths of a pixel, milliseconds, ticks).             *)
(***************************************************************************)
CANVAS_WIDTH == 6000
CANVAS_HEIGHT == 4000
BIRB_WIDTH == 420
BIRB_HEIGHT == 300
PIPE_WIDTH == 500
TICK_RATE_MS == 50
GRAVITY == 16
FLAP == 100
SCROLL == 70
BIRD_X == 30
INITIAL_LIVES == 3
HIT_COOLDOWN == 6
BOUNCE_LO == 40
BOUNCE_HI == 100

(***************************************************************************)
(* Bounds of the model.                                                    *)
(***************************************************************************)
\* ticks applied in one run of a game
MaxTicks == 64
\* ticks applied in one run that only follows the schedule
MaxShortTicks == 6
\* flap events applied in one run
MaxFlaps == 1
\* ticks applied in one run in which flaps are not limited
MaxFlapTicks == 24
\* items in a schedule
MaxItems == 2
\* ticks applied in one run that lasts until obstacles are forgotten
MaxLongTicks == 106
\* ticks applied in one run without flaps
MaxFallTicks == 48
\* mousedown events on the page in one run
MaxMousedowns == 2
\* largest coordinate of a rectangle handed to overlap
MaxCoord == 2
\* largest width and height of a rectangle handed to overlap
MaxSide == 2

Max(a, b) == IF a >= b THEN a ELSE b
Min(a, b) == IF a <= b THEN a ELSE b

(***************************************************************************)
(* Schedules the runs are started with.                                    *)
(***************************************************************************)
Item(t, gy, gh) == [appearTime |-> t, gapY |-> gy, gapHeight |-> gh]

\* the 100 px gap at mid height (0.5, 0.25)
MidGap(t) == Item(t, 2000, 1000)
\* a gap as tall as the viewport (0.5, 1.0): the obstacle has no solid part
TallGap(t) == Item(t, 2000, 4000)
\* a 40 px gap near the floor (0.9, 0.1)
LowGap(t) == Item(t, 3600, 400)

\* appear times (ms): zero, on a tick boundary, strictly inside a tick interval
AppearTimes == {0, 50, 75, 100, 200}

ScheduleItems == {MidGap(t) : t \in AppearTimes} \cup {LowGap(t) : t \in AppearTimes}

\* every schedule of at most MaxItems items, in every order, repetitions included
Schedules == UNION {[1..n -> ScheduleItems] : n \in 0..MaxItems}

\* the schedules of the full-length games
GameSchedules ==
    { <<>>,
      <<TallGap(50)>>,
      <<LowGap(75), TallGap(100)>>,
      <<MidGap(0), MidGap(50)>> }

(***************************************************************************)
(* CSV texts.  A text is the sequence of its characters.  The numerals     *)
(* the texts are written with are listed with the numbers they denote      *)
(* (num / den), so that what a text should parse to is known without       *)
(* parsing it.                                                             *)
(***************************************************************************)
LF == "\n"
CR == "\r"

HeaderLine == <<"g", "a", "p", "_", "y", ",", "g", "a", "p", "_", "h", "e", "i", "g", "h", "t", ",", "t", "i", "m", "e">>

Numeral(chars, num, den) == [text |-> chars, num |-> num, den |-> den]

Numerals ==
    { Numeral(<<"0", ".", "0">>, 0, 10), Numeral(<<"0", ".", "0", "5">>, 5, 100), Numeral(<<"0", ".", "0", "7", "5">>, 75, 1000),
      Numeral(<<"0", ".", "1">>, 1, 10), Numeral(<<"0", ".", "2">>, 2, 10), Numeral(<<"0", ".", "2", "5">>, 25, 100),
      Numeral(<<"0", ".", "5">>, 5, 10), Numeral(<<"0", ".", "9">>, 9, 10), Numeral(<<"1", ".", "0">>, 10, 10),
      Numeral(<<"2", ".", "0">>, 20, 10) }

\* the numeral of Numerals that denotes value / unit
NumeralOf(value, unit) == CHOOSE n \in Numerals : n.num * unit = value * n.den

\* the row of the schedule file that describes item it
CsvRow(it) ==
    NumeralOf(it.gapY, CANVAS_HEIGHT).text \o <<",">> \o
    NumeralOf(it.gapHeight, CANVAS_HEIGHT).text \o <<",">> \o
    NumeralOf(it.appearTime, 1000).text

RECURSIVE CsvRows(_)
CsvRows(sched) == IF sched = <<>> THEN <<>> ELSE <<LF>> \o CsvRow(Head(sched)) \o CsvRows(Tail(sched))

\* the schedule file that describes sched: the header and one row per item
CsvOf(sched) == HeaderLine \o CsvRows(sched)

\* a field padded with blanks, and the empty field of a blank line
Padded(n) == [n EXCEPT !.text = <<" ">> \o n.text \o <<" ", " ">>]
Blank == Numeral(<<>>, 0, 0)

\* lines of a file, each the sequence of its fields: the two rows of the sample
\* file, a row of two fields, a blank line, a row of padded fields, a row of four
DataLines ==
    { <<NumeralOf(5, 10), NumeralOf(25, 100), NumeralOf(0, 1)>>,
      <<NumeralOf(5, 10), NumeralOf(25, 100), NumeralOf(2, 1)>>,
      <<NumeralOf(5, 10), NumeralOf(25, 100)>>,
      <<Blank>>,
      <<Padded(NumeralOf(9, 10)), Padded(NumeralOf(1, 10)), Padded(NumeralOf(5, 100))>>,
      <<NumeralOf(9, 10), NumeralOf(1, 10), NumeralOf(1, 10), NumeralOf(2, 1)>> }

RECURSIVE LineText(_)
LineText(fields) ==
    IF Len(fields) = 1 THEN fields[1].text
    ELSE fields[1].text \o <<",">> \o LineText(Tail(fields))

\* the item a line of at least three fields describes
LineItem(fields) ==
    Item((fields[3].num * 1000) \div fields[3].den,
         (fields[1].num * CANVAS_HEIGHT) \div fields[1].den,
         (fields[2].num * CANVAS_HEIGHT) \div fields[2].den)

RECURSIVE LinesText(_, _)
LinesText(lines, nl) ==
    IF lines = <<>> THEN <<>> ELSE nl \o LineText(Head(lines)) \o LinesText(Tail(lines), nl)

RECURSIVE LinesItems(_)
LinesItems(lines) ==
    IF lines = <<>> THEN <<>>
    ELSE (IF Len(Head(lines)) >= 3 THEN <<LineItem(Head(lines))>> ELSE <<>>) \o LinesItems(Tail(lines))

\* a file (first line, later lines, line ending, ending with a line ending or
\* not) and the items its later lines describe
CsvCase(first, lines, nl, closed) ==
    [ text  |-> first \o LinesText(lines, nl) \o (IF closed THEN nl ELSE <<>>),
      items |-> LinesItems(lines) ]

\* the first line is the header, or any other line: a row of the sample file
FirstLines == {HeaderLine, LineText(<<NumeralOf(5, 10), NumeralOf(25, 100), NumeralOf(0, 1)>>)}

\* every file of a first line and at most MaxItems later lines
CsvCases ==
    { CsvCase(first, lines, nl, closed) :
        first \in FirstLines,
        lines \in UNION {[1..n -> DataLines] : n \in 0..MaxItems},
        nl \in {<<LF>>, <<CR, LF>>},
        closed \in BOOLEAN }

(***************************************************************************)
(* csvParser(csv)                                                          *)
(***************************************************************************)
Whitespace == {" ", "\t", LF, CR}

RECURSIVE trimStart(_)
trimStart(str) ==
    IF str # <<>> /\ Head(str) \in Whitespace THEN trimStart(Tail(str)) ELSE str

RECURSIVE trimEnd(_)
trimEnd(str) ==
    IF str # <<>> /\ str[Len(str)] \in Whitespace THEN trimEnd(SubSeq(str, 1, Len(str) - 1)) ELSE str

\* String.prototype.trim
trim(str) == trimEnd(trimStart(str))

\* String.prototype.split on the one-character separator sep
RECURSIVE split(_, _)
split(str, sep) ==
    IF \E i \in 1..Len(str) : str[i] = sep
    THEN LET i == CHOOSE k \in 1..Len(str) : str[k] = sep /\ \A j \in 1..(k - 1) : str[j] # sep
         IN  <<SubSeq(str, 1, i - 1)>> \o split(SubSeq(str, i + 1, Len(str)), sep)
    ELSE <<str>>

\* split(/\r?\n/): a CR right before a LF belongs to the separator
splitLines(str) ==
    LET parts == split(str, LF)
    IN  [ i \in 1..Len(parts) |->
            IF i < Len(parts) /\ parts[i] # <<>> /\ parts[i][Len(parts[i])] = CR
            THEN SubSeq(parts[i], 1, Len(parts[i]) - 1)
            ELSE parts[i] ]

Digits == {"0", "1", "2", "3", "4", "5", "6", "7", "8", "9"}

DigitValue(c) ==
    CASE c = "0" -> 0 [] c = "1" -> 1 [] c = "2" -> 2 [] c = "3" -> 3 [] c = "4" -> 4
      [] c = "5" -> 5 [] c = "6" -> 6 [] c = "7" -> 7 [] c = "8" -> 8 [] c = "9" -> 9

\* the number of digits str begins with
RECURSIVE digitsLen(_)
digitsLen(str) ==
    IF str # <<>> /\ Head(str) \in Digits THEN 1 + digitsLen(Tail(str)) ELSE 0

RECURSIVE numberOf(_, _)
numberOf(digits, acc) ==
    IF digits = <<>> THEN acc ELSE numberOf(Tail(digits), 10 * acc + DigitValue(Head(digits)))

RECURSIVE pow10(_)
pow10(n) == IF n = 0 THEN 1 ELSE 10 * pow10(n - 1)

NaN == [num |-> 0, den |-> 0]

\* parseFloat on decimal numerals: leading white space is skipped, then a sign,
\* digits and a fraction are read up to the first character that continues none
\* of them; NaN when no digit was read.  The value read is num / den.  Exponents
\* and Infinity are not modelled.
parseFloat(str) ==
    LET s0     == trimStart(str)
        signed == s0 # <<>> /\ Head(s0) \in {"+", "-"}
        s1     == IF signed THEN Tail(s0) ELSE s0
        n      == digitsLen(s1)
        rest   == SubSeq(s1, n + 1, Len(s1))
        m      == IF rest # <<>> /\ Head(rest) = "." THEN digitsLen(Tail(rest)) ELSE 0
        abs    == numberOf(SubSeq(s1, 1, n) \o SubSeq(rest, 2, m + 1), 0)
    IN  IF n + m = 0 THEN NaN
        ELSE [num |-> IF signed /\ Head(s0) = "-" THEN -abs ELSE abs, den |-> pow10(m)]

\* x * c in floating point; the product is a whole number for every numeral the
\* model draws
times(x, c) == IF x = NaN THEN NaN ELSE (x.num * c) \div x.den

\* r.split(",").map(s => s.trim())
columns(r) ==
    LET parts == split(r, ",")
    IN  [i \in 1..Len(parts) |-> trim(parts[i])]

\* mutant of hasAllColumns: a row of exactly three fields is dropped
hasAllColumns_MoreThanThree(cols) == Len(cols) > 3

hasAllColumns(cols) == Len(cols) >= 3

\* mutant of rowItem: the time is kept in seconds
rowItem_TimeInSeconds(cols) ==
    Item(times(parseFloat(cols[3]), 1),
         times(parseFloat(cols[1]), CANVAS_HEIGHT),
         times(parseFloat(cols[2]), CANVAS_HEIGHT))

rowItem(cols) ==
    Item(times(parseFloat(cols[3]), 1000),
         times(parseFloat(cols[1]), CANVAS_HEIGHT),
         times(parseFloat(cols[2]), CANVAS_HEIGHT))

csvParser(csv) ==
    LET lines == splitLines(trim(csv))
        rows  == Tail(lines)
        cols  == [i \in 1..Len(rows) |-> columns(rows[i])]
        kept  == SelectSeq(cols, hasAllColumns)
    IN  [i \in 1..Len(kept) |-> rowItem(kept[i])]

VARIABLES
    csv,        \* csvContents: the text of the schedule file state$ is called with
    state,      \* the accumulator of scan: the running State
    gravity,    \* Constants.GRAVITY of the build (0 under the test-only override)
    schedule,   \* history: the schedule the run was constructed from
    spawned,    \* history: every Pipe ever created by tick, in creation order
    sinceLoss,  \* history: ticks applied since the tick that last took a life, capped at HIT_COOLDOWN
    flaps,      \* history: number of flap reducers applied so far, counted up to MaxFlaps
    ticks,      \* history: number of tick reducers applied so far
    arrived,    \* history: the reducers reducers$ has delivered, in arrival order (kept by SpecFold)
    emitted,    \* history: the states state$ has emitted, in emission order (kept by SpecFold)
    passes,     \* history: the obstacles the bird has passed, each with whether its tick registered no hit
    mirror,     \* the running State of a second game beside the first (kept by SpecPermuted, SpecBeside)
    call,       \* the arguments of a call of overlap, collisionType or pipeRects (kept by SpecCalls)
    result,     \* what that call returned
    pipeline    \* the main pipeline: the fetch, the mousedown listener, the interval and the key listener

vars == <<csv, state, gravity, schedule, spawned, sinceLoss, flaps, ticks, arrived, emitted,
          passes, mirror, call, result, pipeline>>

(***************************************************************************)
(* InitialState(pending)                                                   *)
(***************************************************************************)
InitialState(pending) ==
    [ gameEnd      |-> FALSE,
      birdY        |-> CANVAS_HEIGHT \div 2 - BIRB_HEIGHT \div 2,
      birdVelocity |-> 0,
      scrollX      |-> 0,
      pipes        |-> <<>>,
      nextPipe     |-> 0,
      nextPipeX    |-> 0,
      birdX        |-> (CANVAS_WIDTH * 3) \div 10 - BIRB_WIDTH \div 2,
      birdLives    |-> INITIAL_LIVES,
      hitCooldown  |-> 0,
      score        |-> 0,
      elapsedMs    |-> 0,
      pending      |-> pending,
      totalPipes   |-> Len(pending) ]

(***************************************************************************)
(* Geometry.                                                               *)
(***************************************************************************)
Rect(x, y, width, height) == [x |-> x, y |-> y, width |-> width, height |-> height]

\* mutant of overlap: the comparisons are not strict
overlap_TouchCounts(a, b) ==
    /\ a.x <= b.x + b.width
    /\ a.x + a.width >= b.x
    /\ a.y <= b.y + b.height
    /\ a.y + a.height >= b.y

overlap(a, b) ==
    /\ a.x < b.x + b.width
    /\ a.x + a.width > b.x
    /\ a.y < b.y + b.height
    /\ a.y + a.height > b.y

\* mutant of pipeRects: the gap edges are taken a whole gapHeight from gapY
pipeRects_WholeGapHeight(p) ==
    LET topHeight    == p.gapY - p.gapHeight
        bottomY      == p.gapY + p.gapHeight
        bottomHeight == CANVAS_HEIGHT - bottomY
    IN  [ top    |-> Rect(p.frame, 0, PIPE_WIDTH, topHeight),
          bottom |-> Rect(p.frame, bottomY, PIPE_WIDTH, bottomHeight) ]

pipeRects(p) ==
    LET topHeight    == p.gapY - p.gapHeight \div 2
        bottomY      == p.gapY + p.gapHeight \div 2
        bottomHeight == CANVAS_HEIGHT - bottomY
    IN  [ top    |-> Rect(p.frame, 0, PIPE_WIDTH, topHeight),
          bottom |-> Rect(p.frame, bottomY, PIPE_WIDTH, bottomHeight) ]

clamp(x, lo, hi) == Max(lo, Min(hi, x))

\* the values Math.random() lets randomNum(4, 10) return, as tenths in [4, 10)
BounceMagnitudes == {BOUNCE_LO, BOUNCE_HI - 1}

\* mutant of collisionType: the bottom conditions are tested first
collisionType_BottomFirst(bird, pipes) ==
    LET topScreen        == bird.y <= 0
        bottomScreen     == bird.y + bird.height >= CANVAS_HEIGHT
        anyTopPipeHit    == \E i \in 1..Len(pipes) : overlap(bird, pipeRects(pipes[i]).top)
        anyBottomPipeHit == \E i \in 1..Len(pipes) : overlap(bird, pipeRects(pipes[i]).bottom)
    IN  IF bottomScreen \/ anyBottomPipeHit THEN "BOTTOM"
        ELSE IF topScreen \/ anyTopPipeHit THEN "TOP"
        ELSE "NONE"

collisionType(bird, pipes) ==
    LET topScreen        == bird.y <= 0
        bottomScreen     == bird.y + bird.height >= CANVAS_HEIGHT
        anyTopPipeHit    == \E i \in 1..Len(pipes) : overlap(bird, pipeRects(pipes[i]).top)
        anyBottomPipeHit == \E i \in 1..Len(pipes) : overlap(bird, pipeRects(pipes[i]).bottom)
    IN  IF topScreen \/ anyTopPipeHit THEN "TOP"
        ELSE IF bottomScreen \/ anyBottomPipeHit THEN "BOTTOM"
        ELSE "NONE"

(***************************************************************************)
(* tick(s): the local constants of the function, in the order of the code. *)
(***************************************************************************)
\* mutant of elapsedMsNext: the clock stops once the game has ended
elapsedMsNext_StopsAtGameEnd(s) == IF s.gameEnd THEN s.elapsedMs ELSE s.elapsedMs + TICK_RATE_MS

elapsedMsNext(s) == s.elapsedMs + TICK_RATE_MS

isDue(it, s) == it.appearTime > s.elapsedMs /\ it.appearTime <= elapsedMsNext(s)

\* mutant of due: pending is taken to be in order of appear time, and is read up to
\* its first item that is not due
due_UntilFirstNotDue(s) ==
    LET notDue == {i \in 1..Len(s.pending) : ~isDue(s.pending[i], s)}
    IN  IF notDue = {} THEN s.pending
        ELSE SubSeq(s.pending, 1, (CHOOSE i \in notDue : \A j \in notDue : i <= j) - 1)

due(s) == SelectSeq(s.pending, LAMBDA it : isDue(it, s))

\* mutant of staysPending: an item whose appear time is the time of the tick stays
staysPending_AtTickTime(it, s) == it.appearTime >= elapsedMsNext(s)

staysPending(it, s) == it.appearTime > elapsedMsNext(s)

\* mutant of pendingAfter: the due items are left in pending
pendingAfter_KeepsDue(s) == s.pending

pendingAfter(s) == SelectSeq(s.pending, LAMBDA it : staysPending(it, s))

\* mutant of pipeFrame: the appear time is not taken into account
pipeFrame_IgnoresAppearTime(appearTime) == CANVAS_WIDTH + PIPE_WIDTH

\* mutant of pipeFrame: the obstacle is placed at the right edge of the viewport
pipeFrame_AtViewportEdge(appearTime) == (SCROLL * appearTime) \div TICK_RATE_MS + CANVAS_WIDTH

\* scrollPerMs * appearTime + CANVAS_WIDTH + PIPE_WIDTH, scrollPerMs = SCROLL / TICK_RATE_MS
pipeFrame(appearTime) == (SCROLL * appearTime) \div TICK_RATE_MS + CANVAS_WIDTH + PIPE_WIDTH

\* mutant of pipeId: the index within the due list is dropped
pipeId_NoIndex(s, i) == s.nextPipe

pipeId(s, i) == s.nextPipe + i

newPipes(s) ==
    [ i \in 1..Len(due(s)) |->
        [ id        |-> pipeId(s, i - 1),
          frame     |-> pipeFrame(due(s)[i].appearTime),
          gapY      |-> due(s)[i].gapY,
          gapHeight |-> due(s)[i].gapHeight ] ]

velocity(s) == s.birdVelocity + gravity

Y(s) == s.birdY + velocity(s)

maxX == (CANVAS_WIDTH - BIRB_WIDTH) \div 2

\* mutant of nextX: the drift is not clamped
nextX_Unclamped(s) == s.birdX + BIRD_X

nextX(s) == Min(maxX, s.birdX + BIRD_X)

\* mutant of inFrame: the obstacle is kept while its right edge is ahead of the
\* bird's right edge
inFrame_AheadOfBird(p, s) == p.frame + PIPE_WIDTH >= s.birdX + s.scrollX + BIRB_WIDTH

\* mutant of inFrame: the obstacle is tested against the scrollX of the next state
inFrame_NextScroll(p, s) == p.frame + PIPE_WIDTH >= s.scrollX + SCROLL

inFrame(p, s) == p.frame + PIPE_WIDTH >= s.scrollX

inFramePipes(s) == SelectSeq(s.pipes \o newPipes(s), LAMBDA p : inFrame(p, s))

birdFrameX(s) == nextX(s) + s.scrollX

birdRect(s) == Rect(birdFrameX(s), Y(s), BIRB_WIDTH, BIRB_HEIGHT)

pipeHit(s) == collisionType(birdRect(s), inFramePipes(s))

topScreen(s) == Y(s) <= 0

bottomScreen(s) == Y(s) + BIRB_HEIGHT >= CANVAS_HEIGHT

birdFrameXPrev(s) == s.birdX + s.scrollX

birdFrameXNext(s) == nextX(s) + (s.scrollX + SCROLL)

\* mutant of newlyPassed: every obstacle behind the bird is counted
newlyPassed_AllBehind(s) ==
    Len(SelectSeq(inFramePipes(s), LAMBDA p : p.frame + PIPE_WIDTH <= birdFrameXNext(s)))

newlyPassed(s) ==
    Len(SelectSeq(inFramePipes(s),
                  LAMBDA p : /\ p.frame + PIPE_WIDTH > birdFrameXPrev(s)
                             /\ p.frame + PIPE_WIDTH <= birdFrameXNext(s)))

\* mutant of canTakeHit: the cooldown is not consulted
canTakeHit_Always(s) == TRUE

canTakeHit(s) == s.hitCooldown <= 0

anyHit(s) == pipeHit(s) # "NONE" \/ topScreen(s) \/ bottomScreen(s)

\* mutant of bounceVel: the bounce is imparted only when the hit takes a life
bounceVel_OnlyWithoutCooldown(s, rnd) ==
    IF ~canTakeHit(s) THEN velocity(s)
    ELSE IF topScreen(s) \/ pipeHit(s) = "TOP" THEN rnd
    ELSE IF bottomScreen(s) \/ pipeHit(s) = "BOTTOM" THEN -rnd
    ELSE velocity(s)

\* mutant of bounceVel: the two bounce directions are exchanged
bounceVel_SignsSwapped(s, rnd) ==
    IF topScreen(s) \/ pipeHit(s) = "TOP" THEN -rnd
    ELSE IF bottomScreen(s) \/ pipeHit(s) = "BOTTOM" THEN rnd
    ELSE velocity(s)

\* mutant of bounceVel: the draw also perturbs the velocity of a tick without a hit
bounceVel_DrawOnEveryTick(s, rnd) ==
    IF topScreen(s) \/ pipeHit(s) = "TOP" THEN rnd
    ELSE IF bottomScreen(s) \/ pipeHit(s) = "BOTTOM" THEN -rnd
    ELSE velocity(s) + (rnd - BOUNCE_LO)

\* rnd is the value randomNum(4, 10) returns when the branch calls it
bounceVel(s, rnd) ==
    IF topScreen(s) \/ pipeHit(s) = "TOP" THEN rnd
    ELSE IF bottomScreen(s) \/ pipeHit(s) = "BOTTOM" THEN -rnd
    ELSE velocity(s)

\* mutant of scoreAfter: a hit forfeits the score
scoreAfter_LostOnHit(s) == IF ~anyHit(s) THEN s.score + newlyPassed(s) ELSE 0

scoreAfter(s) == IF ~anyHit(s) THEN s.score + newlyPassed(s) ELSE s.score

boundedY(s) ==
    IF topScreen(s) THEN 0
    ELSE IF bottomScreen(s) THEN CANVAS_HEIGHT - BIRB_HEIGHT
    ELSE Y(s)

\* mutant of livesAfter: no floor at 0
livesAfter_NoFloor(s) ==
    IF anyHit(s) /\ canTakeHit(s) THEN s.birdLives - 1 ELSE s.birdLives

livesAfter(s) ==
    IF anyHit(s) /\ canTakeHit(s) THEN Max(0, s.birdLives - 1) ELSE s.birdLives

\* mutant of hitCooldownAfter: every hit restarts the cooldown
hitCooldownAfter_AnyHit(s) ==
    IF anyHit(s) THEN HIT_COOLDOWN ELSE Max(0, s.hitCooldown - 1)

hitCooldownAfter(s) ==
    IF anyHit(s) /\ canTakeHit(s) THEN HIT_COOLDOWN ELSE Max(0, s.hitCooldown - 1)

\* mutant of win: strict comparison
win_Strict(s) == scoreAfter(s) > s.totalPipes

win(s) == scoreAfter(s) >= s.totalPipes

\* mutant of gameEndNow: the loss of the last life is forgotten
gameEndNow_WinOnly(s) == win(s)

\* mutant of gameEndNow: the win is forgotten
gameEndNow_LossOnly(s) == livesAfter(s) <= 0

gameEndNow(s) == livesAfter(s) <= 0 \/ win(s)

\* mutant of birdYAfter: the raw position is returned
birdYAfter_Unclamped(s) == Y(s)

birdYAfter(s) == clamp(boundedY(s), 0, CANVAS_HEIGHT - BIRB_HEIGHT)

gameEndAfter(s) == gameEndNow(s) \/ s.gameEnd

\* mutant of scrollXAfter: the world stops scrolling once the game has ended
scrollXAfter_StopsAtGameEnd(s) == IF s.gameEnd THEN s.scrollX ELSE s.scrollX + SCROLL

scrollXAfter(s) == s.scrollX + SCROLL

tick(s, rnd) ==
    [ s EXCEPT
        !.elapsedMs    = elapsedMsNext(s),
        !.nextPipe     = s.nextPipe + Len(newPipes(s)),
        !.birdVelocity = bounceVel(s, rnd),
        !.birdY        = birdYAfter(s),
        !.birdX        = nextX(s),
        !.scrollX      = scrollXAfter(s),
        !.pipes        = inFramePipes(s),
        !.birdLives    = livesAfter(s),
        !.hitCooldown  = hitCooldownAfter(s),
        !.gameEnd      = gameEndAfter(s),
        !.score        = scoreAfter(s),
        !.pending      = pendingAfter(s) ]

(***************************************************************************)
(* The flap reducer.                                                       *)
(***************************************************************************)
\* mutant of flap: the impulse is added to the velocity
flap_AddsImpulse(s) == [s EXCEPT !.birdVelocity = s.birdVelocity - FLAP]

\* mutant of flap: the record is rebuilt without carrying gameEnd over
flap_DropsGameEnd(s) == [s EXCEPT !.birdVelocity = -FLAP, !.gameEnd = FALSE]

\* mutant of flap: flaps queue up, a flap on a rising bird adds to its climb
flap_QueuesOnClimb(s) == [s EXCEPT !.birdVelocity = Min(s.birdVelocity, 0) - FLAP]

flap(s) == [s EXCEPT !.birdVelocity = -FLAP]

(***************************************************************************)
(* state$: scan((state, reducer) => reducer(state), initialState) over the *)
(* reducers of tick$ and flap$.  A reducer is written as a record: the     *)
(* tick reducer together with the value its call of randomNum(4, 10)       *)
(* returns (0 when the tick makes no call), or the flap reducer.           *)
(***************************************************************************)
TickReducer(rnd) == [kind |-> "tick", rnd |-> rnd]

FlapReducer == [kind |-> "flap"]

\* reducer(state)
apply(reducer, s) == IF reducer.kind = "tick" THEN tick(s, reducer.rnd) ELSE flap(s)

\* mutant of accumulate: every reducer is applied to the initial state
accumulate_FromInitialState(acc, reducer) == apply(reducer, InitialState(schedule))

\* the accumulator of scan
accumulate(acc, reducer) == apply(reducer, acc)

\* the values randomNum(4, 10) can return to tick on s: it is called on a hit only
Draws(s) == IF anyHit(s) THEN BounceMagnitudes ELSE {0}

\* the obstacles of t.pipes whose right edge the bird has moved past between s and
\* t, the state the tick on s returns, each with whether that tick registered no hit
passed(s, t) ==
    LET crossed == SelectSeq(t.pipes,
                             LAMBDA p : /\ p.frame + PIPE_WIDTH > s.birdX + s.scrollX
                                        /\ p.frame + PIPE_WIDTH <= t.birdX + t.scrollX)
    IN  [i \in 1..Len(crossed) |-> [id |-> crossed[i].id, credited |-> ~anyHit(s)]]

\* the main pipeline once the file has arrived and the first mousedown has called
\* state$: the interval and the key listener are subscribed
Started ==
    [ fetch       |-> "ok",
      logged      |-> FALSE,
      failed      |-> FALSE,
      click       |-> "taken",
      timer       |-> TRUE,
      keys        |-> TRUE,
      subscribed  |-> TRUE,
      mousedowns  |-> 1 ]

Start(sched, g) ==
    /\ csv = CsvOf(sched)
    /\ state = InitialState(sched)
    /\ gravity = g
    /\ schedule = sched
    /\ spawned = <<>>
    /\ sinceLoss = HIT_COOLDOWN
    /\ flaps = 0
    /\ ticks = 0
    /\ arrived = <<>>
    /\ emitted = <<>>
    /\ passes = <<>>
    /\ mirror = state
    /\ call = <<>>
    /\ result = <<>>
    /\ pipeline = Started

TickStep ==
    /\ \E rnd \in BounceMagnitudes : state' = accumulate(state, TickReducer(rnd))
    /\ spawned' = spawned \o newPipes(state)
    /\ sinceLoss' = IF state'.birdLives < state.birdLives THEN 0 ELSE Min(HIT_COOLDOWN, sinceLoss + 1)
    /\ ticks' = ticks + 1
    /\ passes' = passes \o passed(state, state')
    /\ UNCHANGED <<csv, gravity, schedule, flaps, arrived, emitted, mirror, call, result, pipeline>>

Tick ==
    /\ state.elapsedMs < MaxTicks * TICK_RATE_MS
    /\ TickStep

TickShort ==
    /\ state.elapsedMs < MaxShortTicks * TICK_RATE_MS
    /\ TickStep

Flap ==
    /\ flaps < MaxFlaps
    /\ state' = accumulate(state, FlapReducer)
    /\ flaps' = flaps + 1
    /\ UNCHANGED <<csv, gravity, schedule, spawned, sinceLoss, ticks, arrived, emitted,
                    passes, mirror, call, result, pipeline>>

\* full-length games over the game schedules
Init == \E sched \in GameSchedules : Start(sched, GRAVITY)

Next == Tick \/ Flap

Spec == Init /\ [][Next]_vars

\* runs of any number of flaps, long enough to climb to the ceiling
TickFlapping ==
    /\ state.elapsedMs < MaxFlapTicks * TICK_RATE_MS
    /\ TickStep

FlapAny ==
    /\ state' = accumulate(state, FlapReducer)
    /\ flaps' = Min(MaxFlaps, flaps + 1)
    /\ UNCHANGED <<csv, gravity, schedule, spawned, sinceLoss, ticks, arrived, emitted,
                    passes, mirror, call, result, pipeline>>

InitFlapping == \E sched \in {<<>>, <<MidGap(4 * TICK_RATE_MS)>>} : Start(sched, GRAVITY)

NextFlapping == TickFlapping \/ FlapAny

SpecFlapping == InitFlapping /\ [][NextFlapping]_vars

\* runs that keep the reducers delivered and the states emitted
FoldTick ==
    /\ state.elapsedMs < MaxFlapTicks * TICK_RATE_MS
    /\ \E rnd \in Draws(state) :
          /\ state' = accumulate(state, TickReducer(rnd))
          /\ arrived' = Append(arrived, TickReducer(rnd))
    /\ emitted' = Append(emitted, state')
    /\ spawned' = spawned \o newPipes(state)
    /\ sinceLoss' = IF state'.birdLives < state.birdLives THEN 0 ELSE Min(HIT_COOLDOWN, sinceLoss + 1)
    /\ ticks' = ticks + 1
    /\ passes' = passes \o passed(state, state')
    /\ UNCHANGED <<csv, gravity, schedule, flaps, mirror, call, result, pipeline>>

FoldFlap ==
    /\ flaps < MaxFlaps
    /\ state' = accumulate(state, FlapReducer)
    /\ arrived' = Append(arrived, FlapReducer)
    /\ emitted' = Append(emitted, state')
    /\ flaps' = flaps + 1
    /\ UNCHANGED <<csv, gravity, schedule, spawned, sinceLoss, ticks, passes, mirror, call, result, pipeline>>

NextFold == FoldTick \/ FoldFlap

SpecFold == InitFlapping /\ [][NextFold]_vars

\* games of at most one flap, long enough for the obstacles to scroll out of the viewport
TickLong ==
    /\ state.elapsedMs < MaxLongTicks * TICK_RATE_MS
    /\ TickStep

InitLong == \E sched \in {<<MidGap(TICK_RATE_MS)>>, <<LowGap(75), MidGap(4 * TICK_RATE_MS)>>} : Start(sched, GRAVITY)

\* the first flap of a game
FlapOnce ==
    /\ flaps = 0
    /\ Flap

NextLong == TickLong \/ FlapOnce

SpecLong == InitLong /\ [][NextLong]_vars

\* two games in step, on a schedule and on a permutation of it: the same reducers,
\* with the same draws, are applied to both
Permutations(seq) ==
    { [i \in 1..Len(seq) |-> seq[f[i]]] :
        f \in { g \in [1..Len(seq) -> 1..Len(seq)] : \A i, j \in 1..Len(seq) : g[i] = g[j] => i = j } }

StartPermuted(sched, perm) ==
    /\ csv = CsvOf(sched)
    /\ state = InitialState(sched)
    /\ gravity = GRAVITY
    /\ schedule = sched
    /\ spawned = <<>>
    /\ sinceLoss = HIT_COOLDOWN
    /\ flaps = 0
    /\ ticks = 0
    /\ arrived = <<>>
    /\ emitted = <<>>
    /\ passes = <<>>
    /\ mirror = InitialState(perm)
    /\ call = <<>>
    /\ result = <<>>
    /\ pipeline = Started

PermutedTick ==
    /\ state.elapsedMs < MaxTicks * TICK_RATE_MS
    /\ \E rnd \in BounceMagnitudes :
          /\ state' = accumulate(state, TickReducer(rnd))
          /\ mirror' = accumulate(mirror, TickReducer(rnd))
    /\ spawned' = spawned \o newPipes(state)
    /\ sinceLoss' = IF state'.birdLives < state.birdLives THEN 0 ELSE Min(HIT_COOLDOWN, sinceLoss + 1)
    /\ ticks' = ticks + 1
    /\ passes' = passes \o passed(state, state')
    /\ UNCHANGED <<csv, gravity, schedule, flaps, arrived, emitted, call, result, pipeline>>

PermutedFlap ==
    /\ flaps = 0
    /\ state' = accumulate(state, FlapReducer)
    /\ mirror' = accumulate(mirror, FlapReducer)
    /\ flaps' = flaps + 1
    /\ UNCHANGED <<csv, gravity, schedule, spawned, sinceLoss, ticks, arrived, emitted,
                    passes, call, result, pipeline>>

InitPermuted ==
    \E sched \in { <<LowGap(75), TallGap(100)>>, <<MidGap(0), MidGap(50)>>, <<LowGap(4 * TICK_RATE_MS), MidGap(50)>> } :
        \E perm \in Permutations(sched) \ {sched} : StartPermuted(sched, perm)

NextPermuted == PermutedTick \/ PermutedFlap

SpecPermuted == InitPermuted /\ [][NextPermuted]_vars

\* a game beside the game of the same schedule that is never flapped: every tick
\* of the interval is applied to both, each with its own draw, and the flap to
\* the first alone
BesideTick ==
    /\ state.elapsedMs < MaxLongTicks * TICK_RATE_MS
    /\ \E rnd \in BounceMagnitudes : state' = accumulate(state, TickReducer(rnd))
    /\ mirror' = accumulate(mirror, TickReducer(BOUNCE_LO))
    /\ spawned' = spawned \o newPipes(state)
    /\ sinceLoss' = IF state'.birdLives < state.birdLives THEN 0 ELSE Min(HIT_COOLDOWN, sinceLoss + 1)
    /\ ticks' = ticks + 1
    /\ passes' = passes \o passed(state, state')
    /\ UNCHANGED <<csv, gravity, schedule, flaps, arrived, emitted, call, result, pipeline>>

NextBeside == BesideTick \/ FlapOnce

SpecBeside == InitLong /\ [][NextBeside]_vars

\* games in which no key is pressed: the interval goes on emitting, so a tick that
\* can be applied is applied in the end
TickFalling ==
    /\ state.elapsedMs < MaxFallTicks * TICK_RATE_MS
    /\ TickStep

SpecFalling == Init /\ [][TickFalling]_vars /\ WF_vars(TickFalling)

(***************************************************************************)
(* The main pipeline: csv$ fetches the file; when its text arrives the      *)
(* first mousedown is awaited (click$, take(1)); that mousedown subscribes  *)
(* state$(contents), whose states go to render().                          *)
(***************************************************************************)
\* the pipeline as subscribed at load time: the fetch is under way
Loading ==
    [ fetch       |-> "pending",
      logged      |-> FALSE,
      failed      |-> FALSE,
      click       |-> "idle",
      timer       |-> FALSE,
      keys        |-> FALSE,
      subscribed  |-> TRUE,
      mousedowns  |-> 0 ]

\* how the fetch ends: a response that is ok, a response that is not, a network error
FetchOutcomes == {"ok", "notOk", "error"}

\* csv$: the text of an ok response is handed on and click$ is subscribed; any
\* other outcome is logged by catchError and thrown again, which ends the pipeline
responded(p, outcome) ==
    IF outcome = "ok" THEN [p EXCEPT !.fetch = "ok", !.click = "listening"]
    ELSE [p EXCEPT !.fetch = outcome, !.logged = TRUE, !.failed = TRUE, !.subscribed = FALSE]

\* mutant of taken: click$ without take(1), the listener stays
taken_KeepsListening(p) == [p EXCEPT !.timer = TRUE, !.keys = TRUE]

\* click$ emits once and completes; state$(contents) is subscribed: its interval
\* and its key listener start
taken(p) == [p EXCEPT !.click = "taken", !.timer = TRUE, !.keys = TRUE]

\* mutant of teardown: the key listener is left in place
teardown_TimerOnly(p) == [p EXCEPT !.timer = FALSE]

\* the teardown of reducers$: both inner subscriptions are unsubscribed
teardown(p) == [p EXCEPT !.timer = FALSE, !.keys = FALSE]

StartPipeline(sched) ==
    /\ csv = CsvOf(sched)
    /\ state = InitialState(sched)
    /\ gravity = GRAVITY
    /\ schedule = sched
    /\ spawned = <<>>
    /\ sinceLoss = HIT_COOLDOWN
    /\ flaps = 0
    /\ ticks = 0
    /\ arrived = <<>>
    /\ emitted = <<>>
    /\ passes = <<>>
    /\ mirror = state
    /\ call = <<>>
    /\ result = <<>>
    /\ pipeline = Loading

FetchResponds ==
    /\ pipeline.subscribed
    /\ pipeline.fetch = "pending"
    /\ \E outcome \in FetchOutcomes : pipeline' = responded(pipeline, outcome)
    /\ UNCHANGED <<csv, state, gravity, schedule, spawned, sinceLoss, flaps, ticks, arrived, emitted,
                    passes, mirror, call, result>>

\* a mousedown on the page; it is heard only while click$ is subscribed
Mousedown ==
    /\ pipeline.mousedowns < MaxMousedowns
    /\ IF pipeline.subscribed /\ pipeline.click = "listening"
       THEN /\ pipeline' = [taken(pipeline) EXCEPT !.mousedowns = @ + 1]
            /\ schedule' = csvParser(csv)
            /\ state' = InitialState(csvParser(csv))
       ELSE /\ pipeline' = [pipeline EXCEPT !.mousedowns = @ + 1]
            /\ UNCHANGED <<schedule, state>>
    /\ UNCHANGED <<csv, gravity, spawned, sinceLoss, flaps, ticks, arrived, emitted,
                    passes, mirror, call, result>>

PipelineTick ==
    /\ pipeline.timer
    /\ FoldTick

PipelineKey ==
    /\ pipeline.keys
    /\ FoldFlap

\* the subscriber of the pipeline unsubscribes
Unsubscribe ==
    /\ pipeline.subscribed
    /\ pipeline' = [teardown(pipeline) EXCEPT
                       !.subscribed = FALSE,
                       !.click = IF @ = "listening" THEN "idle" ELSE @,
                       !.fetch = IF @ = "pending" THEN "aborted" ELSE @]
    /\ UNCHANGED <<csv, state, gravity, schedule, spawned, sinceLoss, flaps, ticks, arrived, emitted,
                    passes, mirror, call, result>>

InitPipeline == \E sched \in {<<>>, <<MidGap(4 * TICK_RATE_MS)>>} : StartPipeline(sched)

NextPipeline == FetchResponds \/ Mousedown \/ PipelineTick \/ PipelineKey \/ Unsubscribe

SpecPipeline == InitPipeline /\ [][NextPipeline]_vars

\* runs of a single call of overlap or of collisionType
SmallRects ==
    { Rect(x, y, w, h) : x \in 0..MaxCoord, y \in 0..MaxCoord, w \in 1..MaxSide, h \in 1..MaxSide }

CallOverlap ==
    /\ call = <<>>
    /\ \E a \in SmallRects, b \in SmallRects :
          /\ call' = <<"overlap", a, b>>
          /\ result' = overlap(a, b)
    /\ UNCHANGED <<csv, state, gravity, schedule, spawned, sinceLoss, flaps, ticks, arrived, emitted,
                    passes, mirror, pipeline>>

\* one obstacle position; a bird left of it, overlapping it in x, touching its left
\* edge and touching its right edge
ObstacleFrame == pipeFrame(0)
BirdFrameXs ==
    { 0, ObstacleFrame - BIRB_WIDTH \div 2, ObstacleFrame - BIRB_WIDTH, ObstacleFrame + PIPE_WIDTH }

\* bird heights: past, at and below the ceiling; in, at the edges of and around the
\* mid-height gaps; above, at and past the floor
BirdYs ==
    { -10, 0, 10, 1200, 1500, 1850, 2200, 2210,
      CANVAS_HEIGHT - BIRB_HEIGHT - 10, CANVAS_HEIGHT - BIRB_HEIGHT, CANVAS_HEIGHT - BIRB_HEIGHT + 10 }

BirdRects == { Rect(x, y, BIRB_WIDTH, BIRB_HEIGHT) : x \in BirdFrameXs, y \in BirdYs }

\* gaps (gapY, gapHeight): the 100 px gap at mid height, a 20 px gap at mid height
\* that the bird cannot fit, a gap open to the ceiling, a gap next to the floor
Gaps == { <<2000, 1000>>, <<2000, 200>>, <<100, 200>>, <<3900, 200>> }

ObstacleLists ==
    UNION { [1..n -> { [id |-> 0, frame |-> ObstacleFrame, gapY |-> g[1], gapHeight |-> g[2]] : g \in Gaps }] :
            n \in 0..MaxItems }

CallCollisionType ==
    /\ call = <<>>
    /\ \E bird \in BirdRects, pipes \in ObstacleLists :
          /\ call' = <<"collisionType", bird, pipes>>
          /\ result' = collisionType(bird, pipes)
    /\ UNCHANGED <<csv, state, gravity, schedule, spawned, sinceLoss, flaps, ticks, arrived, emitted,
                    passes, mirror, pipeline>>

\* gaps (gapY, gapHeight) that reach past the ceiling and past the floor
GapsPastViewport == { <<50, 200>>, <<CANVAS_HEIGHT - 50, 200>> }

Obstacles ==
    { [id |-> 0, frame |-> f, gapY |-> g[1], gapHeight |-> g[2]] :
        f \in {ObstacleFrame, pipeFrame(TICK_RATE_MS)}, g \in Gaps \cup GapsPastViewport }

CallPipeRects ==
    /\ call = <<>>
    /\ \E p \in Obstacles :
          /\ call' = <<"pipeRects", p>>
          /\ result' = pipeRects(p)
    /\ UNCHANGED <<csv, state, gravity, schedule, spawned, sinceLoss, flaps, ticks, arrived, emitted,
                    passes, mirror, pipeline>>

InitCalls == Start(<<>>, GRAVITY)

NextCalls == CallOverlap \/ CallCollisionType \/ CallPipeRects

SpecCalls == InitCalls /\ [][NextCalls]_vars

\* short runs over every schedule
InitSchedule == \E sched \in Schedules : Start(sched, GRAVITY)

NextSchedule == TickShort \/ Flap

SpecSchedule == InitSchedule /\ [][NextSchedule]_vars

\* short runs of state$(csvContents) over every file
StartCsv(text) ==
    /\ csv = text
    /\ schedule = csvParser(csv)
    /\ state = InitialState(schedule)
    /\ gravity = GRAVITY
    /\ spawned = <<>>
    /\ sinceLoss = HIT_COOLDOWN
    /\ flaps = 0
    /\ ticks = 0
    /\ arrived = <<>>
    /\ emitted = <<>>
    /\ passes = <<>>
    /\ mirror = state
    /\ call = <<>>
    /\ result = <<>>
    /\ pipeline = Started

InitCsv == \E c \in CsvCases : StartCsv(c.text)

SpecCsv == InitCsv /\ [][NextSchedule]_vars

\* full-length games with gravity overridden to 0, one scheduled obstacle with the mid gap
InitNoGravity == \E t \in {0, TICK_RATE_MS} : Start(<<MidGap(t)>>, 0)

SpecNoGravity == InitNoGravity /\ [][Next]_vars

(***************************************************************************)
(* Properties.                                                             *)
(***************************************************************************)
\* a step of the run that applies tick (flap leaves elapsedMs alone)
IsTickStep == state'.elapsedMs # state.elapsedMs

\* position of the floor for the bird's top edge
FloorY == CANVAS_HEIGHT - BIRB_HEIGHT

\* the obstacle that tick builds from schedule item it
IsPipeOf(p, it) ==
    /\ p.frame = pipeFrame(it.appearTime)
    /\ p.gapY = it.gapY
    /\ p.gapHeight = it.gapHeight

Occurrences(seq, x) == Cardinality({j \in 1..Len(seq) : seq[j] = x})

PipesOf(seq, it) == Cardinality({j \in 1..Len(seq) : IsPipeOf(seq[j], it)})

\* C1: every schedule item, appearTime 0 included, is in `pending` until the tick
\* that reaches its appearTime (the first tick for appearTime 0), and from that tick
\* on it is out of `pending` and exactly one obstacle has been made from it.
C1_EveryItemBecomesOneObstacle ==
    \A i \in 1..Len(schedule) :
        LET it == schedule[i]
            copies == Occurrences(schedule, it)
        IN  IF state.elapsedMs > 0 /\ it.appearTime <= state.elapsedMs
            THEN Occurrences(state.pending, it) = 0 /\ PipesOf(spawned, it) = copies
            ELSE Occurrences(state.pending, it) = copies /\ PipesOf(spawned, it) = 0

\* the same statement for the items with appearTime > 0 only
C1_EveryLaterItemBecomesOneObstacle ==
    \A i \in 1..Len(schedule) :
        LET it == schedule[i]
            copies == Occurrences(schedule, it)
        IN  it.appearTime > 0 =>
                IF it.appearTime <= state.elapsedMs
                THEN Occurrences(state.pending, it) = 0 /\ PipesOf(spawned, it) = copies
                ELSE Occurrences(state.pending, it) = copies /\ PipesOf(spawned, it) = 0

\* C2: one item at appearTime 0 with the mid gap, gravity 0, ticks only: birdLives
\* stays 3, and score is 1 exactly from the tick after which the bird's
\* frame-relative x (birdX + scrollX) has reached the obstacle's right edge.
C2_PassesAndScoresOnce ==
    (schedule = <<MidGap(0)>> /\ gravity = 0 /\ flaps = 0) =>
        /\ state.birdLives = INITIAL_LIVES
        /\ state.score =
             IF state.birdX + state.scrollX >= pipeFrame(0) + PIPE_WIDTH THEN 1 ELSE 0

\* C3: 0 <= birdLives <= 3 in every state; no tick or flap raises birdLives, and
\* one step lowers it by at most 1.
C3_LivesBoundedNonIncreasing ==
    /\ [](state.birdLives \in 0..INITIAL_LIVES)
    /\ [][ /\ state'.birdLives <= state.birdLives
           /\ state'.birdLives >= state.birdLives - 1 ]_vars

\* all three lives have been lost in a run that also applied a flap
C3_Witness == state.birdLives = 0 /\ flaps > 0

\* C4: a life is lost only when none was lost on the 6 ticks before, and a tick
\* that registers a hit with hitCooldown 0 and birdLives > 0 takes exactly one life.
C4_CooldownBlocksSecondLoss ==
    [][ /\ state'.birdLives < state.birdLives => sinceLoss = HIT_COOLDOWN
        /\ (IsTickStep /\ anyHit(state) /\ state.hitCooldown = 0 /\ state.birdLives > 0)
              => state'.birdLives = state.birdLives - 1 ]_vars

\* the bird is pinned on the floor by a hit registered within 6 ticks of the second
\* life loss, and that hit took no life
C4_Witness ==
    /\ state.birdY = FloorY
    /\ sinceLoss \in 1..(HIT_COOLDOWN - 1)
    /\ state.birdLives = INITIAL_LIVES - 2

\* C5: 0 <= hitCooldown <= 6 in every state; a tick sets it to 6 exactly when it
\* registers a hit with the prior hitCooldown 0, and to max(0, hitCooldown - 1)
\* otherwise; flap leaves it alone.
C5_CooldownResetOrDecrement ==
    /\ [](state.hitCooldown \in 0..HIT_COOLDOWN)
    /\ [][ IF IsTickStep
           THEN IF anyHit(state) /\ state.hitCooldown = 0
                THEN state'.hitCooldown = HIT_COOLDOWN
                ELSE state'.hitCooldown = Max(0, state.hitCooldown - 1)
           ELSE state'.hitCooldown = state.hitCooldown ]_vars

\* a hit is about to be registered while the cooldown is still running
C5_Witness ==
    /\ anyHit(state)
    /\ state.hitCooldown \in 1..(HIT_COOLDOWN - 1)
    /\ flaps > 0

\* C6: once gameEnd is true it stays true under every tick and flap.
C6_GameEndSticky == [][state.gameEnd => state'.gameEnd]_vars

\* the game has ended, and ticks and a flap have been applied since
C6_Witness ==
    /\ state.gameEnd
    /\ state.birdLives > 0
    /\ state.elapsedMs > TICK_RATE_MS
    /\ state.birdVelocity = -FLAP

\* C7: 0 <= birdY <= CANVAS_HEIGHT - BIRB_HEIGHT in every state; a tick whose raw
\* position is at or above the ceiling returns birdY = 0, one whose raw position is
\* at or below the floor returns birdY = CANVAS_HEIGHT - BIRB_HEIGHT.
C7_BirdYClamped ==
    /\ [](state.birdY \in 0..FloorY)
    /\ [][ IsTickStep =>
             LET raw == state.birdY + state.birdVelocity + gravity
             IN  /\ raw <= 0 => state'.birdY = 0
                 /\ raw >= FloorY => state'.birdY = FloorY ]_vars

\* a tick has snapped the bird to the ceiling and bounced it downward
C7_Witness == state.birdY = 0 /\ state.birdVelocity > 0

\* C8: after at least one tick, gameEnd holds exactly when birdLives = 0 or
\* score >= totalPipes.
C8_GameEndIffLossOrWin ==
    state.elapsedMs > 0 =>
        (state.gameEnd <=> (state.birdLives = 0 \/ state.score >= state.totalPipes))

\* the game has ended by a win alone, with every scheduled obstacle scored
C8_Witness ==
    /\ state.gameEnd
    /\ state.birdLives > 0
    /\ state.score >= state.totalPipes

\* C9: with an empty schedule no obstacle is ever spawned, and gameEnd is true from
\* the first tick on.
C9_EmptyScheduleWinsAtOnce ==
    schedule = <<>> =>
        /\ state.totalPipes = 0
        /\ state.pipes = <<>>
        /\ spawned = <<>>
        /\ state.nextPipe = 0
        /\ state.elapsedMs >= TICK_RATE_MS => state.gameEnd

\* the state of the first tick of an empty schedule, a flap applied before it
C9_Witness ==
    /\ schedule = <<>>
    /\ state.elapsedMs = TICK_RATE_MS
    /\ flaps > 0
    /\ state.birdVelocity = -FLAP + GRAVITY
    /\ state.gameEnd

\* C10: the k-th obstacle ever spawned has id k - 1 (ids strictly increase in spawn
\* order, due-list order within a tick, so no two are equal), nextPipe is the
\* number of obstacles spawned so far, and the visible obstacles are spawned ones.
C10_IdsUniqueAndIncreasing ==
    /\ \A k \in 1..Len(spawned) : spawned[k].id = k - 1
    /\ state.nextPipe = Len(spawned)
    /\ \A k \in 1..Len(state.pipes) :
          \E j \in 1..Len(spawned) : spawned[j] = state.pipes[k]

\* two obstacles spawned on one tick, the later-scheduled one first in the due list
C10_Witness ==
    /\ Len(spawned) = 2
    /\ spawned[1].frame > spawned[2].frame
    /\ state.elapsedMs = 2 * TICK_RATE_MS
    /\ Len(state.pipes) = 2

\* C11: a flap sets birdVelocity to -FLAP whatever the prior velocity, gameEnd,
\* birdLives and hitCooldown are, and leaves every other field as it was.
C11_FlapOverwritesVelocityOnly ==
    [][ flaps' # flaps =>
          /\ state'.birdVelocity = -FLAP
          /\ state'.birdY = state.birdY
          /\ state'.birdX = state.birdX
          /\ state'.scrollX = state.scrollX
          /\ state'.elapsedMs = state.elapsedMs
          /\ state'.pipes = state.pipes
          /\ state'.pending = state.pending
          /\ state'.nextPipe = state.nextPipe
          /\ state'.nextPipeX = state.nextPipeX
          /\ state'.birdLives = state.birdLives
          /\ state'.hitCooldown = state.hitCooldown
          /\ state'.score = state.score
          /\ state'.totalPipes = state.totalPipes
          /\ state'.gameEnd = state.gameEnd ]_vars

\* a flap has just been applied to an ended game with a life lost and the cooldown running
C11_Witness ==
    /\ state.birdVelocity = -FLAP
    /\ state.gameEnd
    /\ state.birdLives < INITIAL_LIVES
    /\ state.hitCooldown > 0
    /\ state.pipes # <<>>

\* the left fold of the reducers reds over the state s
RECURSIVE FoldLeft(_, _)
FoldLeft(reds, s) == IF reds = <<>> THEN s ELSE FoldLeft(Tail(reds), apply(Head(reds), s))

\* C12: one state is emitted per reducer delivered, in arrival order, and the
\* n-th state emitted is the left fold of the first n reducers over the initial state.
C12_EmittedIsLeftFold ==
    /\ Len(emitted) = Len(arrived)
    /\ state = FoldLeft(arrived, InitialState(schedule))
    /\ emitted # <<>> => emitted[Len(emitted)] = state
    /\ \A n \in 1..Len(emitted) :
          emitted[n] = apply(arrived[n], IF n = 1 THEN InitialState(schedule) ELSE emitted[n - 1])

\* a flap has arrived between two ticks and a later tick drew a bounce
C12_Witness ==
    /\ Len(emitted) = MaxFlapTicks + 1
    /\ \E i, j, k \in 1..Len(arrived) :
          /\ i < j /\ j < k
          /\ arrived[i].kind = "tick"
          /\ arrived[j] = FlapReducer
          /\ arrived[k] = TickReducer(BOUNCE_HI - 1)

\* C13: after n ticks, interleaved with any flaps, elapsedMs = n * TICK_RATE_MS.
C13_ClockCountsTicks == state.elapsedMs = ticks * TICK_RATE_MS

\* ticks have been applied before and after a flap, and after the game ended
C13_Witness ==
    /\ ticks = MaxTicks
    /\ flaps > 0
    /\ state.gameEnd
    /\ state.elapsedMs = MaxTicks * TICK_RATE_MS

\* C14: after n ticks scrollX = n * SCROLL: every tick adds SCROLL, before and
\* after gameEnd, and nothing else changes scrollX.
C14_ScrollCountsTicks == state.scrollX = ticks * SCROLL

\* the game was lost at least 6 ticks ago and the world has kept scrolling
C14_Witness ==
    /\ state.gameEnd
    /\ state.birdLives = 0
    /\ sinceLoss = HIT_COOLDOWN
    /\ state.scrollX = ticks * SCROLL
    /\ flaps > 0

\* C15: no tick and no flap lowers score.
C15_ScoreNeverDecreases == [][state'.score >= state.score]_vars

\* a hit has been registered by the last tick, after an obstacle was scored
C15_Witness == state.score > 0 /\ state.hitCooldown = HIT_COOLDOWN

\* the sample file: "gap_y,gap_height,time", "0.5,0.25,0.0", "0.5,0.25,2.0"
SampleCsv ==
    << "g", "a", "p", "_", "y", ",", "g", "a", "p", "_", "h", "e", "i", "g",
       "h", "t", ",", "t", "i", "m", "e", LF, "0", ".", "5", ",", "0", ".", "2",
       "5", ",", "0", ".", "0", LF, "0", ".", "5", ",", "0", ".", "2", "5", ",",
       "2", ".", "0" >>

\* C16: the sample file parses, at the 400 px viewport, to exactly two items of
\* gapY 200 and gapHeight 100 with appear times 0 and 2000 ms, and the initial
\* state built from them has totalPipes 2 and those two items pending.
C16_SampleFileParses ==
    csv = SampleCsv =>
        /\ schedule = <<Item(0, 2000, 1000), Item(2000, 2000, 1000)>>
        /\ state.totalPipes = 2
        /\ ticks = 0 => state.pending = schedule

\* the game has been constructed from the sample file and has not ticked yet
C16_Witness ==
    /\ csv = SampleCsv
    /\ ticks = 0
    /\ Len(state.pending) = 2

\* C17: the first line is ignored, every later line of fewer than three fields
\* is dropped without disturbing the others, the schedule holds one item per
\* later line of at least three fields, in source order, and totalPipes is
\* their number.
C17_ShortLinesDropped ==
    /\ state.totalPipes = Len(schedule)
    /\ ticks = 0 =>
          /\ state.pending = schedule
          /\ \A c \in CsvCases : c.text = csv => schedule = c.items

\* a file whose first row has two fields and whose second row has three
C17_Witness ==
    /\ ticks = 0
    /\ Len(schedule) = 1
    /\ \E first \in FirstLines, short \in DataLines, long \in DataLines :
          /\ Len(short) < 3
          /\ Len(long) >= 3
          /\ csv = CsvCase(first, <<short, long>>, <<CR, LF>>, TRUE).text

\* every run that starts from a schedule starts from the file that describes it
CsvDescribesSchedule == csvParser(csv) = schedule

\* the bounce that a hit registered by tick s imparts, for some draw in [4, 10)
IsBounceOf(v, s) ==
    IF topScreen(s) \/ pipeHit(s) = "TOP"
    THEN v >= BOUNCE_LO /\ v < BOUNCE_HI
    ELSE -v >= BOUNCE_LO /\ -v < BOUNCE_HI

\* C18 as stated: on a tick that registers a hit while hitCooldown is non-zero the
\* velocity carries over (birdVelocity' = birdVelocity + GRAVITY), birdLives is
\* unchanged and hitCooldown decreases by one; on a tick with no hit
\* birdVelocity' = birdVelocity + GRAVITY and hitCooldown' = max(0, hitCooldown - 1).
C18_CarriesOverDuringCooldown ==
    [][ IsTickStep =>
          /\ (anyHit(state) /\ state.hitCooldown > 0) =>
                /\ state'.birdVelocity = state.birdVelocity + gravity
                /\ state'.birdLives = state.birdLives
                /\ state'.hitCooldown = state.hitCooldown - 1
          /\ ~anyHit(state) =>
                /\ state'.birdVelocity = state.birdVelocity + gravity
                /\ state'.hitCooldown = Max(0, state.hitCooldown - 1) ]_vars

\* C18 amended: on a tick that registers a hit while hitCooldown is non-zero,
\* birdLives is unchanged and hitCooldown decreases by one, and the bounce of the
\* hit side is imparted all the same; on a tick with no hit
\* birdVelocity' = birdVelocity + GRAVITY and hitCooldown' = max(0, hitCooldown - 1).
C18_BouncesDuringCooldown ==
    [][ IsTickStep =>
          /\ (anyHit(state) /\ state.hitCooldown > 0) =>
                /\ IsBounceOf(state'.birdVelocity, state)
                /\ state'.birdLives = state.birdLives
                /\ state'.hitCooldown = state.hitCooldown - 1
          /\ ~anyHit(state) =>
                /\ state'.birdVelocity = state.birdVelocity + gravity
                /\ state'.birdLives = state.birdLives
                /\ state'.hitCooldown = Max(0, state.hitCooldown - 1) ]_vars

\* a tick has registered a floor hit during the cooldown: the bird is on the floor,
\* bounced upward, and no life was taken
C18_Witness ==
    /\ state.birdY = FloorY
    /\ state.birdVelocity < 0
    /\ state.birdVelocity > -FLAP
    /\ state.hitCooldown \in 1..(HIT_COOLDOWN - 1)
    /\ sinceLoss \in 1..(HIT_COOLDOWN - 1)

\* C19: on a tick that registers a hit with hitCooldown 0, birdLives' =
\* max(0, birdLives - 1), hitCooldown' = 6, and birdVelocity' is a bounce of
\* magnitude in [4, 10), downward for TOP or the ceiling, upward for BOTTOM or the floor.
C19_HitAtCooldownZero ==
    [][ (IsTickStep /\ anyHit(state) /\ state.hitCooldown = 0) =>
          /\ state'.birdLives = Max(0, state.birdLives - 1)
          /\ state'.hitCooldown = HIT_COOLDOWN
          /\ IsBounceOf(state'.birdVelocity, state) ]_vars

\* a hit on the top part of an obstacle has just taken the last life and bounced the
\* bird downward
C19_Witness ==
    /\ state.birdLives = 0
    /\ sinceLoss = 0
    /\ state.hitCooldown = HIT_COOLDOWN
    /\ state.birdVelocity > 0
    /\ state.birdY > 0

\* C20: the rectangle that a tick classifies is the bird's rectangle in the state
\* the tick returns: x = birdX' + scrollX', y = the new raw y.
C20_CollisionRectAtNewPosition ==
    [][ IsTickStep =>
          /\ birdRect(state).x = state'.birdX + state'.scrollX
          /\ birdRect(state).y = state.birdY + state.birdVelocity + gravity ]_vars

\* the entries of passes whose tick registered no hit
Credited == {i \in 1..Len(passes) : passes[i].credited}

\* C21: score is the number of obstacles whose right edge the bird moved past
\* (from birdX + scrollX, exclusive, to birdX' + scrollX + SCROLL, inclusive) on a
\* tick without a hit; a pass on a tick with a hit adds nothing, and no obstacle
\* is passed on two ticks, so a discarded pass is never credited later.
C21_ScoreCountsPassesWithoutHit ==
    /\ state.score = Cardinality(Credited)
    /\ \A i, j \in 1..Len(passes) : i # j => passes[i].id # passes[j].id

\* one obstacle was passed on a tick with a hit, and a later one was credited
C21_Witness ==
    \E i, j \in 1..Len(passes) :
        /\ i < j
        /\ ~passes[i].credited
        /\ passes[j].credited
        /\ state.score = 1

\* C22: score <= nextPipe <= totalPipes; every spawned obstacle is credited at most
\* once; totalPipes stays the length of the schedule; and score >= totalPipes > 0
\* implies that pending is empty and that every item of the schedule was spawned.
C22_ScoreBoundedBySpawned ==
    /\ state.score <= state.nextPipe
    /\ state.nextPipe <= state.totalPipes
    /\ state.totalPipes = Len(schedule)
    /\ state.nextPipe = Len(spawned)
    /\ \A i \in Credited :
          /\ \E k \in 1..Len(spawned) : spawned[k].id = passes[i].id
          /\ \A j \in Credited : j # i => passes[j].id # passes[i].id
    /\ (state.score >= state.totalPipes /\ state.totalPipes > 0) =>
          /\ state.pending = <<>>
          /\ Len(spawned) = Len(schedule)
          /\ \A k \in 1..Len(schedule) : \E n \in 1..Len(spawned) : IsPipeOf(spawned[n], schedule[k])

\* both obstacles of a schedule of two have been spawned and credited
C22_Witness ==
    /\ state.totalPipes = 2
    /\ state.score = 2
    /\ state.pending = <<>>

\* C23: collisionType returns TOP if bird.y <= 0 or the bird overlaps the top
\* rectangle of some obstacle; otherwise BOTTOM if bird.y + bird.height >=
\* CANVAS_HEIGHT or the bird overlaps the bottom rectangle of some obstacle;
\* otherwise NONE; TOP wins when a TOP and a BOTTOM condition both hold.
C23_CollisionTypeClassifies ==
    (call # <<>> /\ call[1] = "collisionType") =>
        LET bird   == call[2]
            pipes  == call[3]
            top    == \/ bird.y <= 0
                      \/ \E i \in 1..Len(pipes) : overlap(bird, pipeRects(pipes[i]).top)
            bottom == \/ bird.y + bird.height >= CANVAS_HEIGHT
                      \/ \E i \in 1..Len(pipes) : overlap(bird, pipeRects(pipes[i]).bottom)
        IN  /\ top => result = "TOP"
            /\ (~top /\ bottom) => result = "BOTTOM"
            /\ (~top /\ ~bottom) => result = "NONE"

\* a call with the bird across a gap it does not fit: it overlaps a top and a bottom
\* rectangle, away from the screen bounds, and the call returned TOP
C23_Witness ==
    /\ call # <<>>
    /\ call[1] = "collisionType"
    /\ result = "TOP"
    /\ call[2].y > 0
    /\ \E i \in 1..Len(call[3]) : overlap(call[2], pipeRects(call[3][i]).bottom)

\* C24: overlap(a, b) is true exactly when the rectangles share interior area (the
\* intersection has positive width and positive height), so rectangles that touch
\* along an edge or at a corner do not overlap, and overlap(a, b) = overlap(b, a).
C24_OverlapIsSharedInterior ==
    (call # <<>> /\ call[1] = "overlap") =>
        LET a == call[2]
            b == call[3]
            sharedWidth  == Min(a.x + a.width, b.x + b.width) - Max(a.x, b.x)
            sharedHeight == Min(a.y + a.height, b.y + b.height) - Max(a.y, b.y)
        IN  /\ result = (sharedWidth > 0 /\ sharedHeight > 0)
            /\ result = overlap(b, a)

\* a call on two rectangles that touch along a vertical edge returned FALSE
C24_Witness ==
    /\ call # <<>>
    /\ call[1] = "overlap"
    /\ call[2].x + call[2].width = call[3].x
    /\ call[2].y = call[3].y
    /\ result = FALSE

\* the obstacles that the step has spawned
JustSpawned == SubSeq(spawned', Len(spawned) + 1, Len(spawned'))

\* C25: after a tick, pipes is the previous pipes followed by the obstacles spawned
\* on the tick, without those with frame + PIPE_WIDTH < scrollX of the prior state;
\* a flap leaves pipes alone; an obstacle that has left pipes is never in it again.
C25_PipesLeaveByFilterOnly ==
    [][ /\ IsTickStep =>
              state'.pipes = SelectSeq(state.pipes \o JustSpawned,
                                       LAMBDA p : ~(p.frame + PIPE_WIDTH < state.scrollX))
        /\ ~IsTickStep => state'.pipes = state.pipes
        /\ \A k \in 1..Len(spawned) :
              (\A i \in 1..Len(state.pipes) : state.pipes[i] # spawned[k]) =>
                  (\A i \in 1..Len(state'.pipes) : state'.pipes[i] # spawned[k]) ]_vars

\* an obstacle has been forgotten while a later one is still in pipes, in a game
\* with a flap
C25_Witness ==
    /\ Len(state.pipes) = 1
    /\ Len(spawned) = 2
    /\ flaps > 0

\* p has the frame, gapY and gapHeight of the obstacle of schedule item it
MadeFrom(p, it) ==
    /\ p.frame * TICK_RATE_MS = SCROLL * it.appearTime + (CANVAS_WIDTH + PIPE_WIDTH) * TICK_RATE_MS
    /\ p.gapY = it.gapY
    /\ p.gapHeight = it.gapHeight

\* C26: an obstacle is spawned with frame = (SCROLL / TICK_RATE_MS) * appearTime +
\* CANVAS_WIDTH + PIPE_WIDTH and the gapY and gapHeight of its item, and as long as
\* it is in pipes its id, frame, gapY and gapHeight are those it was spawned with.
C26_ObstacleFixedAtSpawn ==
    /\ \A n \in 1..Len(spawned) : \E k \in 1..Len(schedule) : MadeFrom(spawned[n], schedule[k])
    /\ \A i \in 1..Len(state.pipes) :
          \E n \in 1..Len(spawned) :
              /\ spawned[n].id = state.pipes[i].id
              /\ spawned[n] = state.pipes[i]

\* an obstacle is still in pipes 100 ticks after the first tick, in a game with a flap
C26_Witness ==
    /\ state.pipes # <<>>
    /\ ticks > 100
    /\ flaps > 0

\* C27: in the state of the tick that spawns it, every obstacle is in pipes and
\* entirely to the right of the viewport (frame - scrollX' >= CANVAS_WIDTH); and in
\* the state whose elapsedMs is the appearTime of an item, a positive multiple of
\* TICK_RATE_MS, the obstacle of the item is at frame - scrollX = CANVAS_WIDTH + PIPE_WIDTH.
C27_SpawnedRightOfViewport ==
    [][ IsTickStep =>
          /\ \A n \in (Len(spawned) + 1)..Len(spawned') :
                /\ spawned'[n].frame - state'.scrollX >= CANVAS_WIDTH
                /\ \E i \in 1..Len(state'.pipes) : state'.pipes[i] = spawned'[n]
          /\ \A k \in 1..Len(schedule) :
                ( /\ schedule[k].appearTime > 0
                  /\ schedule[k].appearTime % TICK_RATE_MS = 0
                  /\ state'.elapsedMs = schedule[k].appearTime ) =>
                    \E i \in 1..Len(state'.pipes) :
                        /\ MadeFrom(state'.pipes[i], schedule[k])
                        /\ state'.pipes[i].frame - state'.scrollX = CANVAS_WIDTH + PIPE_WIDTH ]_vars

\* the tick that reaches 200 ms has spawned the obstacle of an item due at 200 ms,
\* after an obstacle of an item due inside a tick interval
C27_Witness ==
    /\ state.elapsedMs = 4 * TICK_RATE_MS
    /\ Len(state.pipes) = 2
    /\ state.pipes[1].frame - state.scrollX < CANVAS_WIDTH + PIPE_WIDTH
    /\ state.pipes[2].frame - state.scrollX = CANVAS_WIDTH + PIPE_WIDTH

\* C28: after n ticks, interleaved with any flaps, birdX is the initial birdX plus
\* n * BIRD_X, capped at (CANVAS_WIDTH - BIRB_WIDTH) / 2: it never decreases,
\* never exceeds the cap, stays at the cap once there, and no flap changes it.
C28_BirdXDriftsToCap ==
    /\ state.birdX = Min((CANVAS_WIDTH - BIRB_WIDTH) \div 2,
                         InitialState(schedule).birdX + ticks * BIRD_X)
    /\ state.birdX <= (CANVAS_WIDTH - BIRB_WIDTH) \div 2

\* the bird has been at the cap for several ticks, in a game with a flap
C28_Witness ==
    /\ state.birdX = (CANVAS_WIDTH - BIRB_WIDTH) \div 2
    /\ InitialState(schedule).birdX + (ticks - 5) * BIRD_X > state.birdX
    /\ flaps > 0

\* the number of obstacles of pipes with the frame, gapY and gapHeight of p
CopiesIn(pipes, p) ==
    Cardinality({i \in 1..Len(pipes) :
                    /\ pipes[i].frame = p.frame
                    /\ pipes[i].gapY = p.gapY
                    /\ pipes[i].gapHeight = p.gapHeight})

\* C29: on two schedules that are permutations of each other, under the same ticks,
\* flaps and bounce draws, the same obstacles (by frame, gapY and gapHeight, with
\* the same ids in all) are spawned on every tick and birdY, birdVelocity,
\* birdLives, hitCooldown, score and gameEnd agree after every step.
C29_ScheduleOrderIrrelevant ==
    /\ mirror.birdY = state.birdY
    /\ mirror.birdVelocity = state.birdVelocity
    /\ mirror.birdLives = state.birdLives
    /\ mirror.hitCooldown = state.hitCooldown
    /\ mirror.score = state.score
    /\ mirror.gameEnd = state.gameEnd
    /\ mirror.nextPipe = state.nextPipe
    /\ Len(mirror.pipes) = Len(state.pipes)
    /\ {mirror.pipes[i].id : i \in 1..Len(mirror.pipes)} = {state.pipes[i].id : i \in 1..Len(state.pipes)}
    /\ \A i \in 1..Len(state.pipes) :
          CopiesIn(mirror.pipes, state.pipes[i]) = CopiesIn(state.pipes, state.pipes[i])

\* the two games spawned their obstacles in different orders within a tick, the bird
\* has been hit and an obstacle has been credited
C29_Witness ==
    /\ mirror.pipes # state.pipes
    /\ state.score > 0
    /\ state.birdLives < INITIAL_LIVES

\* C30: once a state with gameEnd = true has been emitted, the driver applies no
\* further tick to the running state.
C30_NoTickAfterGameEnd == [][state.gameEnd => ~IsTickStep]_vars

\* the call made was pipeRects(p)
IsPipeRectsCall == call # <<>> /\ call[1] = "pipeRects"

\* the rectangles of result have the fields that pipeRects gives them for p
HasPipeRectFields(p) ==
    /\ result.top = Rect(p.frame, 0, PIPE_WIDTH, p.gapY - p.gapHeight \div 2)
    /\ result.bottom = Rect(p.frame, p.gapY + p.gapHeight \div 2, PIPE_WIDTH,
                            CANVAS_HEIGHT - (p.gapY + p.gapHeight \div 2))

\* top rectangle, gap and bottom rectangle of result, each of height >= 0, follow
\* one another from 0 to CANVAS_HEIGHT
SpansViewport(p) ==
    /\ result.top.y = 0
    /\ result.top.height >= 0
    /\ result.bottom.y = result.top.y + result.top.height + p.gapHeight
    /\ result.bottom.height >= 0
    /\ result.bottom.y + result.bottom.height = CANVAS_HEIGHT

\* the gap of p lies within the viewport
GapInViewport(p) ==
    /\ p.gapY - p.gapHeight \div 2 >= 0
    /\ p.gapY + p.gapHeight \div 2 <= CANVAS_HEIGHT

\* C33: pipeRects(p) returns top = (frame, 0, PIPE_WIDTH, gapY - gapHeight/2) and
\* bottom = (frame, gapY + gapHeight/2, PIPE_WIDTH, CANVAS_HEIGHT - (gapY + gapHeight/2)),
\* and the two rectangles with the gap between them span exactly [0, CANVAS_HEIGHT].
C33_PipeRectsSpanViewport ==
    IsPipeRectsCall => HasPipeRectFields(call[2]) /\ SpansViewport(call[2])

\* C33, amended: the fields are as stated for every obstacle; the rectangles and the
\* gap span exactly [0, CANVAS_HEIGHT] when the gap lies within the viewport.
C33_PipeRectsSpanViewportForGapInside ==
    IsPipeRectsCall =>
        /\ HasPipeRectFields(call[2])
        /\ GapInViewport(call[2]) => SpansViewport(call[2])

\* pipeRects was called on an obstacle whose gap is inside the viewport, away from
\* the ceiling and the floor
C33_Witness ==
    /\ IsPipeRectsCall
    /\ GapInViewport(call[2])
    /\ result.top.height > 0
    /\ result.bottom.height > 0

\* C34: the random source influences only birdVelocity on hit ticks: the tick on a
\* state where no hit is registered returns the same state for every draw, and the
\* tick on a state where a hit is registered returns states that differ in
\* birdVelocity alone.
C34_RandomOnlyInBounce ==
    \A rnd \in BounceMagnitudes :
        IF anyHit(state)
        THEN [tick(state, rnd) EXCEPT !.birdVelocity = 0] = [tick(state, BOUNCE_LO) EXCEPT !.birdVelocity = 0]
        ELSE tick(state, rnd) = tick(state, BOUNCE_LO)

\* the last tick took a life and bounced the bird off the floor or a bottom
\* rectangle with the largest draw
C34_Witness ==
    /\ sinceLoss = 0
    /\ state.birdVelocity = -(BOUNCE_HI - 1)
    /\ state.birdLives < INITIAL_LIVES

\* C35: pending is the whole schedule in the initial state and, after at least one
\* tick, exactly the items of the schedule whose appearTime is greater than
\* elapsedMs, in their original order; so it never grows, and a flap, which
\* changes neither the tick count nor elapsedMs, never changes it.
C35_PendingIsLaterPartOfSchedule ==
    /\ ticks = 0 => state.pending = schedule
    /\ ticks > 0 => state.pending = SelectSeq(schedule, LAMBDA it : it.appearTime > state.elapsedMs)
    /\ Len(state.pending) <= Len(schedule)

\* ticks and a flap have been applied to a schedule given out of time order, the
\* earlier of its two items has left pending and the later one is still in it
C35_Witness ==
    /\ ticks >= 2
    /\ flaps > 0
    /\ Len(schedule) = 2
    /\ schedule[1].appearTime > schedule[2].appearTime
    /\ state.pending = <<schedule[1]>>

\* C36: flaps cannot influence the schedule-driven part of the state: after every
\* tick, elapsedMs, scrollX, birdX, pending, nextPipe, totalPipes and pipes are
\* those of the run of the same schedule and tick count without any flap.
C36_FlapsLeaveWorldAlone ==
    /\ state.elapsedMs = mirror.elapsedMs
    /\ state.scrollX = mirror.scrollX
    /\ state.birdX = mirror.birdX
    /\ state.pending = mirror.pending
    /\ state.nextPipe = mirror.nextPipe
    /\ state.totalPipes = mirror.totalPipes
    /\ state.pipes = mirror.pipes

\* a flap has led to another score than in the run without flaps, and an obstacle
\* has been spawned and forgotten
C36_Witness ==
    /\ flaps > 0
    /\ state.score # mirror.score
    /\ state.nextPipe > 0
    /\ Len(state.pipes) < state.nextPipe

\* C37: when ticks keep being applied and no flap is, the run reaches a state with
\* gameEnd = true, whatever the schedule and the bounce draws.
C37_FallingGameEnds == <>state.gameEnd

\* a game with obstacles scheduled has ended by the loss of the last life, without
\* any flap
C37_Witness ==
    /\ state.gameEnd
    /\ state.birdLives = 0
    /\ state.score < state.totalPipes
    /\ flaps = 0

\* the ticks, as entries of passes, on which the bird moved past the right edge of
\* obstacle p while p was in the visible set
PassesOf(p) == {i \in 1..Len(passes) : passes[i].id = p.id}

\* the bird of the state is past the right edge of obstacle p
IsBehindBird(p) == p.frame + PIPE_WIDTH <= state.birdX + state.scrollX

\* C38: no obstacle leaves pipes before the tick on which the bird crosses its right
\* edge: an obstacle not yet crossed is in pipes, an obstacle crossed was in the
\* visible set on the one tick that crossed it, and on that tick it was either
\* scored or lost to the hit of that tick, for good.
C38_VisibleUntilCrossed ==
    /\ \A k \in 1..Len(spawned) :
          /\ ~IsBehindBird(spawned[k]) =>
                /\ PassesOf(spawned[k]) = {}
                /\ \E i \in 1..Len(state.pipes) : state.pipes[i] = spawned[k]
          /\ IsBehindBird(spawned[k]) => Cardinality(PassesOf(spawned[k])) = 1
    /\ Len(passes) <= Len(spawned)
    /\ state.score = Cardinality({i \in 1..Len(passes) : passes[i].credited})
    /\ state.score + Cardinality({i \in 1..Len(passes) : ~passes[i].credited}) = Len(passes)

\* two obstacles were crossed while visible, both on ticks with a hit, neither was
\* scored since, and one has been forgotten
C38_Witness ==
    /\ Len(spawned) = 2
    /\ Len(passes) = 2
    /\ state.score = 0
    /\ Len(state.pipes) < 2
    /\ flaps > 0

\* C39: flap is idempotent and absorbs earlier flaps: a flap applied to a state that
\* was just flapped returns it unchanged, so the tick that follows any number
\* (>= 1) of flaps starts from birdVelocity = -FLAP and, when it registers no hit,
\* returns birdVelocity = -FLAP + GRAVITY.
C39_FlapIdempotent ==
    /\ flap(flap(state)) = flap(state)
    /\ flap(state).birdVelocity = -FLAP
    /\ state.birdVelocity = -FLAP => flap(state) = state
    /\ ~anyHit(flap(state)) =>
          tick(flap(flap(state)), BOUNCE_LO).birdVelocity = -FLAP + GRAVITY

\* in a game where a life has been lost, a tick that registered no hit has followed
\* a flap
C39_Witness ==
    /\ state.birdVelocity = -FLAP + GRAVITY
    /\ flaps > 0
    /\ ticks > 1
    /\ state.birdLives < INITIAL_LIVES

\* the step is a mousedown
IsMousedown == pipeline'.mousedowns # pipeline.mousedowns

\* the step applies no reducer and emits no state
IsQuiet ==
    /\ state' = state
    /\ arrived' = arrived
    /\ emitted' = emitted
    /\ ticks' = ticks
    /\ flaps' = flaps

\* C31: when the subscriber unsubscribes, the interval and the key listener are
\* released in that one step, and from then on no tick or flap is applied and no
\* state is emitted.
C31_TeardownReleasesBoth ==
    [][ /\ pipeline.subscribed /\ ~pipeline'.subscribed =>
              /\ ~pipeline'.timer
              /\ ~pipeline'.keys
        /\ ~pipeline.subscribed =>
              /\ IsQuiet
              /\ ~pipeline'.timer
              /\ ~pipeline'.keys ]_vars

\* the subscriber has unsubscribed from a game in which ticks and a flap had been
\* applied, and a mousedown has come since
C31_Witness ==
    /\ ~pipeline.subscribed
    /\ pipeline.fetch = "ok"
    /\ pipeline.click = "taken"
    /\ ~pipeline.timer
    /\ ~pipeline.keys
    /\ ticks > 1
    /\ flaps > 0
    /\ pipeline.mousedowns > 1

\* the fetch has failed
FetchFailed == pipeline.fetch \in {"notOk", "error"}

\* C32: a failed fetch (network error or response not ok) is logged and propagated,
\* the simulation is never started and the fetch is not tried again; after a
\* successful fetch the simulation is started by the first mousedown that follows
\* the arrival of the file, and by nothing else, and later mousedowns do not
\* restart it.
C32_StartsOnFirstClickAfterFetch ==
    /\ [](FetchFailed =>
            /\ pipeline.logged
            /\ pipeline.failed
            /\ ~pipeline.timer
            /\ ~pipeline.keys
            /\ arrived = <<>>
            /\ emitted = <<>>)
    /\ [][ /\ FetchFailed => pipeline'.fetch = pipeline.fetch /\ IsQuiet
           /\ ~pipeline.timer /\ pipeline'.timer =>
                 /\ IsMousedown
                 /\ pipeline.fetch = "ok"
                 /\ emitted' = <<>>
           /\ IsMousedown /\ pipeline.subscribed /\ pipeline.fetch = "ok" /\ emitted = <<>> =>
                 pipeline'.timer /\ pipeline'.keys
           /\ IsMousedown /\ pipeline.fetch # "ok" => ~pipeline'.timer
           /\ IsMousedown /\ pipeline.timer => IsQuiet /\ pipeline'.timer ]_vars

\* the fetch has failed and the mousedowns that came since have started nothing
C32_Witness ==
    /\ FetchFailed
    /\ pipeline.mousedowns = MaxMousedowns
    /\ ~pipeline.timer
    /\ emitted = <<>>

====
